---- MODULE Spec2Model ----
(***************************************************************************)
(* The six Notion MCP command-line scripts as one state machine.  Every    *)
(* script spawns the MCP server as a child process, performs the JSON-RPC  *)
(* handshake over the child's stdin/stdout, sends its fixed sequence of    *)
(* requests (each followed by one blocking line read) and terminates the   *)
(* child in a finally block.                                               *)
(***************************************************************************)
EXTENDS Integers, Sequences, FiniteSets, TLC

(* ----------------------------- bounds ---------------------------------- *)

\* content items carried by one tools/call or tools/list result
MaxContents == 2
\* rows (databases, pages, entries) carried by all content items of one result
MaxRows == 2

\* length of the NOTION_TOKEN values tried when the environment of the
\* child is built
MaxTokenLen == 3

(* --------------------------- the scripts ------------------------------- *)

Scripts ==
  {"update_page_title_description", "get_current_tickets_pageid",
   "list_mcp_capabilities", "query_refined", "list_workspace", "list_databases"}

\* values of os.environ.get("NOTION_TOKEN"): unset, empty, a token
Tokens == {"<unset>", "", "secret"}

\* characters of a token: a plain one, the double quote, the backslash
TokenChars == {"a", "\"", "\\"}

RECURSIVE StringsUpTo(_)
StringsUpTo(n) ==
  IF n = 0 THEN {""}
  ELSE LET shorter == StringsUpTo(n - 1)
       IN shorter \cup {t \o c : t \in {u \in shorter : Len(u) = n - 1}, c \in TokenChars}

\* the values of NOTION_TOKEN tried when the environment is built
EnvTokens == {"<unset>"} \cup StringsUpTo(MaxTokenLen)

\* env["OPENAPI_MCP_HEADERS"] = f'{{"Authorization":"Bearer {notion_token}",
\*                                  "Notion-Version":"2022-06-28"}}'
Headers(t) ==
  "{\"Authorization\":\"Bearer " \o t \o "\",\"Notion-Version\":\"2022-06-28\"}"

(* ------------------- lines the child may put on stdout ----------------- *)

\* A content item of a result (or a tool of tools/list):
\*   nondict       the item is not a JSON object (item.get raises)
\*   nontext       an object whose "type" is not "text"
\*   text_missing  type "text" but no "text" member (content["text"] raises)
\*   text_badjson  the text is not valid JSON
\*   text_noresults the text decodes to an object without "results"
\*   text_results  the text decodes to an object with a "results" list
\* A tool of tools/list is not an object (nondict) or an object whose kind
\* is its name.
\* The decoded text of a text_results item has the member has_more set to
\* true, set to false, or absent.
\* A row is a database (whose title contains "refined", another keyword or
\* none; only list_databases tells the first two apart), a page, an entry,
\* or (database query of get_current_tickets_pageid) one of Pages.
\* A page of a database query result as get_current_tickets_pageid reads
\* it: whether it has a "properties" member and, in the order of the JSON
\* object, the properties with their "type" and their "title" list of
\* plain_text strings (an empty list also stands for no "title" member,
\* the empty string for a text item without plain_text).
Prop(type, title) == [type |-> type, title |-> title]
Page(hasProperties, properties) ==
  [hasProperties |-> hasProperties, properties |-> properties]

Pages ==
  {Page(FALSE, <<>>),
   Page(TRUE, <<>>),
   Page(TRUE, <<Prop("title", <<"Current Tickets">>)>>),
   Page(TRUE, <<Prop("title", <<" Current", " TICKETS ">>)>>),
   Page(TRUE, <<Prop("title", <<>>), Prop("title", <<"Current Tickets">>)>>),
   Page(TRUE, <<Prop("title", <<"Backlog">>), Prop("title", <<"Current Tickets">>)>>),
   Page(TRUE, <<Prop("rich_text", <<"Current Tickets">>),
                Prop("title", <<"Current Tickets", " 2">>)>>),
   Page(TRUE, <<Prop("select", <<"Current Tickets">>)>>)}

RowKinds(script, call) ==
  CASE call = "search" -> IF script = "list_databases"
                          THEN {"refined", "ticket", "plain"}
                          ELSE {"ticket", "plain"}
    [] call = "page_search" -> {"page"}
    [] call = "db_query" -> {"entry"}
    [] call = "query" -> Pages
    [] OTHER -> {}

RECURSIVE SeqsUpTo(_, _)
SeqsUpTo(S, n) ==
  IF n = 0 THEN {<<>>}
  ELSE LET shorter == SeqsUpTo(S, n - 1)
       IN shorter \cup {Append(q, x) : q \in {p \in shorter : Len(p) = n - 1}, x \in S}

Item(kind, rows, more) == [ikind |-> kind, rows |-> rows, has_more |-> more]

PlainItems ==
  {Item(k, <<>>, "absent") :
     k \in {"nondict", "nontext", "text_missing", "text_badjson", "text_noresults"}}

ResultItems(script, call) ==
  {Item("text_results", rows, more) :
     rows \in SeqsUpTo(RowKinds(script, call), MaxRows),
     more \in (IF call \in {"db_query", "query"} THEN {"true", "false", "absent"}
               ELSE {"absent"})}

\* names of tools: with "database", with "query", with neither
ToolNames == {"API-retrieve-a-DataBase", "API-post-Query", "API-post-search"}

ToolItems == {Item(k, <<>>, "absent") : k \in {"nondict"} \cup ToolNames}

\* a resource or a prompt: an object, or something that is not an object
NamedItems == {Item(k, <<>>, "absent") : k \in {"nondict", "named"}}

ItemsFor(script, call) ==
  IF call = "tools/list" THEN ToolItems
  ELSE IF call \in {"resources/list", "prompts/list"} THEN NamedItems
  ELSE IF RowKinds(script, call) = {} THEN {}
  ELSE PlainItems \cup ResultItems(script, call)

RECURSIVE TotalRows(_)
TotalRows(items) ==
  IF items = <<>> THEN 0 ELSE Len(Head(items).rows) + TotalRows(Tail(items))

\* the value of the "result" member: absent, not an object, or an object
\* whose content (or tools) list is `items`
Payload(ptype, items) == [ptype |-> ptype, items |-> items]
NoPayload == Payload("absent", <<>>)

\* the lists whose order or length steers the requests that follow (the
\* search results and the tools) are taken up to MaxContents items long,
\* the lists that are only printed carry at most one item
MaxItems(call) == IF call \in {"search", "tools/list"} THEN MaxContents ELSE 1

\* in the lists of several items the items that are skipped or that raise
\* are represented by one kind each
LongListItems(script, call) ==
  {it \in ItemsFor(script, call) : it.ikind \notin {"text_missing", "text_noresults"}}

DictPayloads(script, call) ==
  {Payload("dict", items) :
     items \in {s \in SeqsUpTo(LongListItems(script, call), MaxItems(call)) :
                  TotalRows(s) <= MaxRows}
              \cup {<<it>> : it \in ItemsFor(script, call)}}

\* A line is end-of-stream, bytes that are not valid UTF-8, a blank line,
\* text that is not JSON, or a JSON value:
\*   null, falsy (0, "", [], {}, false), int (a non-zero number),
\*   array (a list without the element "result"),
\*   has_result (a list or string containing "result"),
\*   dict (an object with optional id / result / error members).
Line(kind, hasId, id, payload, error) ==
  [kind |-> kind, hasId |-> hasId, id |-> id, payload |-> payload, error |-> error]

BareLine(kind) == Line(kind, FALSE, 0, NoPayload, "absent")

NonDictKinds ==
  {"eof", "badbytes", "blank", "garbage", "null", "falsy", "int", "array", "has_result"}

\* the lines the child may write in answer to the request with id `rid`:
\* the non-object lines; under the id of the request, every result of the
\* bounded shape, a result that is not an object, an error, an error that
\* is not an object, both result and error, neither; a result under
\* another id; a result and a notification without id
LinesFor(script, call, rid) ==
  {BareLine(k) : k \in NonDictKinds}
  \cup {Line("dict", TRUE, rid, p, "absent") : p \in DictPayloads(script, call)}
  \cup {Line("dict", TRUE, rid, Payload("nondict", <<>>), "absent"),
        Line("dict", TRUE, rid, NoPayload, "object"),
        Line("dict", TRUE, rid, NoPayload, "nonobject"),
        Line("dict", TRUE, rid, Payload("dict", <<>>), "object"),
        Line("dict", TRUE, rid, NoPayload, "absent"),
        Line("dict", TRUE, rid + 1, Payload("dict", <<>>), "absent"),
        Line("dict", FALSE, 0, Payload("dict", <<>>), "absent"),
        Line("dict", FALSE, 0, NoPayload, "absent")}

(* ------------------------ requests (id, method) ------------------------ *)

Req(id, method, name) == [id |-> id, method |-> method, name |-> name]

\* the tool a script names in a tools/call request
ToolName(script, call, contents, di) ==
  CASE call = "title" -> "API-patch-page"
    [] call = "description" -> "API-patch-block-children"
    [] call \in {"query", "db_query"} -> "API-post-database-query"
    [] call \in {"search", "page_search"} -> "API-post-search"
    [] call = "tool_call" -> contents[di].ikind
    [] OTHER -> "-"

\* the "id" member of each request message
RequestId(script, call, di) ==
  CASE call = "initialize" -> 1
    [] call \in {"title", "query", "tools/list", "search"} -> 2
    [] call \in {"description", "resources/list", "tool_call"} -> 3
    [] call = "prompts/list" -> 4
    [] call = "db_query" -> IF script = "list_workspace" THEN 100 + di ELSE 3 + di
    [] call = "page_search" -> 200

\* Method of a script that skips the handshake message
Method_AllToolCalls(call) ==
  IF call \in {"tools/list", "resources/list", "prompts/list"} THEN call ELSE "tools/call"

Method(call) ==
  CASE call = "initialize" -> "initialize"
    [] call \in {"tools/list", "resources/list", "prompts/list"} -> call
    [] OTHER -> "tools/call"

Request(script, call, contents, di) ==
  Req(RequestId(script, call, di), Method(call), ToolName(script, call, contents, di))

(* ------------------------- read_mcp_response --------------------------- *)

Msg(tag, n, plus) == [tag |-> tag, n |-> n, plus |-> plus]
Say(tag) == Msg(tag, 0, FALSE)

None == BareLine("None")

\* read_mcp_response without `if response:` and without the except clause
read_mcp_response_EofRaises(line) ==
  CASE line.kind \in {"eof", "badbytes", "blank", "garbage"} ->
         [raised |-> TRUE, value |-> None, out |-> <<>>]
    [] line.kind = "null" -> [raised |-> FALSE, value |-> None, out |-> <<>>]
    [] OTHER -> [raised |-> FALSE, value |-> line, out |-> <<>>]

\* read_mcp_response whose except clause names another exception type
read_mcp_response_NoExcept(line) ==
  CASE line.kind = "eof" -> [raised |-> FALSE, value |-> None, out |-> <<>>]
    [] line.kind \in {"badbytes", "blank", "garbage"} ->
         [raised |-> TRUE, value |-> None, out |-> <<>>]
    [] line.kind = "null" -> [raised |-> FALSE, value |-> None, out |-> <<>>]
    [] OTHER -> [raised |-> FALSE, value |-> line, out |-> <<>>]

\* response = process.stdout.readline(); if response: return json.loads(...)
\* except json.JSONDecodeError: print; return None.  return None.
\* `raised` is an exception that leaves the function (readline failing to
\* decode the bytes is not a JSONDecodeError).
read_mcp_response(line) ==
  CASE line.kind = "eof" -> [raised |-> FALSE, value |-> None, out |-> <<>>]
    [] line.kind = "badbytes" -> [raised |-> TRUE, value |-> None, out |-> <<>>]
    [] line.kind \in {"blank", "garbage"} ->
         [raised |-> FALSE, value |-> None, out |-> <<Say("Error parsing JSON")>>]
    [] line.kind = "null" -> [raised |-> FALSE, value |-> None, out |-> <<>>]
    [] OTHER -> [raised |-> FALSE, value |-> line, out |-> <<>>]

\* what the caller keeps of a response once its payload has been consumed
Summary(r) == [r EXCEPT !.payload = Payload(r.payload.ptype, <<>>)]

\* `response and "result" in response`
ResultIn(r) ==
  CASE r.kind \in {"None", "falsy", "array"} -> "no"
    [] r.kind = "int" -> "raise"
    [] r.kind = "has_result" -> "yes"
    [] r.kind = "dict" -> IF r.payload.ptype = "absent" THEN "no" ELSE "yes"

\* `response and "error" in response`, reached when ResultIn is "no"
ErrorIn(r) == r.kind = "dict" /\ r.error # "absent"

\* response["result"].get("content", []) (or "tools", ...): raises unless the
\* response is an object whose result is an object
CanGetItems(r) == r.kind = "dict" /\ r.payload.ptype = "dict"

(* ---------------- what a handler does with a response ------------------ *)

\* the outcome of the code between one read and the next send (or the end
\* of the try block): the next request to send, a return, or an exception
Goto(call, contents, di, out) ==
  [next |-> "send", call |-> call, contents |-> contents, di |-> di,
   out |-> out, exit |-> "running"]

Return(exit, out) ==
  [next |-> "return", call |-> "-", contents |-> <<>>, di |-> 0,
   out |-> out, exit |-> exit]

Raise(out) ==
  [next |-> "raise", call |-> "-", contents |-> <<>>, di |-> 0,
   out |-> out, exit |-> "exception"]

\* the request each script sends after the handshake
FirstCall(script) ==
  CASE script = "update_page_title_description" -> "title"
    [] script = "get_current_tickets_pageid" -> "query"
    [] script \in {"list_mcp_capabilities", "query_refined"} -> "tools/list"
    [] script \in {"list_workspace", "list_databases"} -> "search"

\* AfterInitialize with the handshake test reduced to `if not response:`
AfterInitialize_NoResultTest(script, r) ==
  CASE r.kind = "int" -> Raise(<<>>)
    [] r.kind \in {"None", "falsy"} ->
         Return("handshake", <<Say("Failed to initialize MCP connection")>>)
    [] OTHER ->
         IF script = "list_mcp_capabilities" /\ ~CanGetItems(r)
         THEN Raise(<<Say("Connected to Notion MCP server")>>)
         ELSE Goto(FirstCall(script), <<>>, 0, <<Say("Connected to Notion MCP server")>>)

\* if not response or "result" not in response: print(...); return
\* list_mcp_capabilities then reads response["result"].get(...)
AfterInitialize(script, r) ==
  CASE ResultIn(r) = "raise" -> Raise(<<>>)
    [] ResultIn(r) = "no" ->
         Return("handshake", <<Say("Failed to initialize MCP connection")>>)
    [] OTHER ->
         IF script = "list_mcp_capabilities" /\ ~CanGetItems(r)
         THEN Raise(<<Say("Connected to Notion MCP server")>>)
         ELSE Goto(FirstCall(script), <<>>, 0, <<Say("Connected to Notion MCP server")>>)

\* update_page_title_description: the title patch, then the description
\* patch when args.description is not empty
AfterTitle(r, hasDescription) ==
  IF ResultIn(r) = "raise" THEN Raise(<<>>)
  ELSE LET out == IF ResultIn(r) = "yes" THEN <<Say("Title updated")>>
                  ELSE <<Say("Failed to update title.")>>
       IN IF hasDescription THEN Goto("description", <<>>, 0, out)
          ELSE Return("normal", out)

AfterDescription(r) ==
  CASE ResultIn(r) = "raise" -> Raise(<<>>)
    [] ResultIn(r) = "yes" -> Return("normal", <<Say("Description updated.")>>)
    [] OTHER -> Return("normal", <<Say("Failed to update description.")>>)

\* HasMore of a script that never reads the member
HasMore_Ignored(it) == FALSE

\* has_more = query_data.get("has_more", False), used as a condition
HasMore(it) == it.has_more = "true"

\* total_text = f"{count}+" if has_more else str(count)
TotalText(count, has_more) ==
  IF has_more THEN ToString(count) \o "+" ELSE ToString(count)

\* the line printed for the number of entries of a queried database
EntriesLine(script, count, has_more) ==
  IF script = "list_workspace"
  THEN IF has_more
       THEN "Contains " \o ToString(count) \o "+ entries (showing first "
              \o ToString(count) \o "):"
       ELSE "Contains " \o ToString(count) \o " entries:"
  ELSE "Contains " \o TotalText(count, has_more) \o " entries"

\* the letters str.lower() changes (those of the titles and names used)
ToLower ==
  ("A" :> "a") @@ ("B" :> "b") @@ ("C" :> "c") @@ ("D" :> "d") @@ ("E" :> "e") @@
  ("F" :> "f") @@ ("G" :> "g") @@ ("H" :> "h") @@ ("I" :> "i") @@ ("J" :> "j") @@
  ("K" :> "k") @@ ("L" :> "l") @@ ("M" :> "m") @@ ("N" :> "n") @@ ("O" :> "o") @@
  ("P" :> "p") @@ ("Q" :> "q") @@ ("R" :> "r") @@ ("S" :> "s") @@ ("T" :> "t") @@
  ("U" :> "u") @@ ("V" :> "v") @@ ("W" :> "w") @@ ("X" :> "x") @@ ("Y" :> "y") @@
  ("Z" :> "z")

WhiteSpace == {" ", "\t", "\n", "\r"}

\* str.lower() of one character
LowerChar(c) == IF c \in DOMAIN ToLower THEN ToLower[c] ELSE c

RECURSIVE lower(_)
lower(s) ==
  IF Len(s) = 0 THEN ""
  ELSE LowerChar(SubSeq(s, 1, 1)) \o lower(SubSeq(s, 2, Len(s)))

RECURSIVE lstrip(_)
lstrip(s) ==
  IF Len(s) > 0 /\ SubSeq(s, 1, 1) \in WhiteSpace
  THEN lstrip(SubSeq(s, 2, Len(s)))
  ELSE s

RECURSIVE rstrip(_)
rstrip(s) ==
  IF Len(s) > 0 /\ SubSeq(s, Len(s), Len(s)) \in WhiteSpace
  THEN rstrip(SubSeq(s, 1, Len(s) - 1))
  ELSE s

\* str.strip()
strip(s) == rstrip(lstrip(s))

RECURSIVE Join(_)
\* "".join([t.get("plain_text", "") for t in prop_value["title"]])
Join(texts) == IF texts = <<>> THEN "" ELSE Head(texts) \o Join(Tail(texts))

\* prop_value.get("type") == "title" and prop_value.get("title")
IsTitleProp(prop) == prop.type = "title" /\ prop.title # <<>>

RECURSIVE TitleOf_NoBreak(_, _)
\* TitleOf without the break: the last title property wins
TitleOf_NoBreak(properties, title) ==
  IF properties = <<>> THEN title
  ELSE TitleOf_NoBreak(Tail(properties),
         IF IsTitleProp(Head(properties)) THEN Join(Head(properties).title) ELSE title)

RECURSIVE TitleOf(_, _)
\* for prop_name, prop_value in page["properties"].items():
\*     if <title property>: title = "".join(...); break
TitleOf(properties, title) ==
  IF properties = <<>> THEN title
  ELSE IF IsTitleProp(Head(properties)) THEN Join(Head(properties).title)
  ELSE TitleOf(Tail(properties), title)

\* title = "Untitled"; if "properties" in page: <the loop>
PageTitle(page) ==
  IF page.hasProperties THEN TitleOf(page.properties, "Untitled") ELSE "Untitled"

\* if title.strip().lower() == "current tickets"
IsCurrentTickets(title) == lower(strip(title)) = "current tickets"

RECURSIVE PageLines(_)
\* print(f"Page: '{title}' | ID: {page_id}") and the match line
PageLines(rows) ==
  IF rows = <<>> THEN <<>>
  ELSE LET title == PageTitle(Head(rows))
       IN (IF IsCurrentTickets(title)
           THEN <<Say("Page: '" \o title \o "'"), Say("Page ID for 'Current Tickets'")>>
           ELSE <<Say("Page: '" \o title \o "'")>>)
          \o PageLines(Tail(rows))

\* the loop over the content items of one result.  `mode` names the loop:
\*   pageid   get_current_tickets_pageid (inner `except Exception`)
\*   entries  the per-database query of list_workspace / list_databases
\*   pages    the page search of list_workspace
\* `db` is the database being queried (entries only).  The result is
\* end (loop finished), raise (an exception left the loop) or return
\* (list_databases found the refined database).
RECURSIVE ScanContent(_, _, _, _, _)
ScanContent(script, mode, items, db, out) ==
  IF items = <<>> THEN [k |-> "end", out |-> out]
  ELSE LET it == Head(items)
           rest == Tail(items)
           bad == CASE mode = "pageid" -> <<Say("Error parsing page")>>
                    [] mode = "entries" -> <<Say("Could not parse query response")>>
                    [] mode = "pages" -> <<Say("Could not parse page search response")>>
       IN CASE it.ikind = "nondict" -> [k |-> "raise", out |-> out]
            [] it.ikind \in {"nontext", "text_noresults"} ->
                 ScanContent(script, mode, rest, db, out)
            [] it.ikind = "text_missing" ->
                 IF mode = "pageid"
                 THEN ScanContent(script, mode, rest, db, out \o bad)
                 ELSE [k |-> "raise", out |-> out]
            [] it.ikind = "text_badjson" ->
                 ScanContent(script, mode, rest, db, out \o bad)
            [] it.ikind = "text_results" ->
                 CASE mode = "pageid" ->
                        ScanContent(script, mode, rest, db, out \o PageLines(it.rows))
                   [] mode = "pages" ->
                        ScanContent(script, mode, rest, db,
                          out \o <<IF it.rows # <<>>
                                   THEN Msg("Found page(s)", Len(it.rows), FALSE)
                                   ELSE Say("No pages found")>>)
                   [] mode = "entries" ->
                        LET n == Say(EntriesLine(script, Len(it.rows), HasMore(it)))
                        IN IF script = "list_workspace"
                           THEN ScanContent(script, mode, rest, db,
                                  out \o <<n>> \o
                                  (IF db \in {"refined", "ticket"}
                                   THEN <<Say("This might be your ticket database!")>>
                                   ELSE <<>>))
                           ELSE IF db = "refined"
                           THEN [k |-> "return",
                                 out |-> out \o <<n, Say("FOUND REFINED DATABASE!"),
                                                  Say("Ticket Count: " \o
                                                      TotalText(Len(it.rows), HasMore(it)))>>]
                           ELSE ScanContent(script, mode, rest, db, out \o <<n>>)

\* found = True for a result whose title is 'Current Tickets'
Found(items) ==
  \E i \in 1..Len(items) :
    /\ items[i].ikind = "text_results"
    /\ \E j \in 1..Len(items[i].rows) : IsCurrentTickets(PageTitle(items[i].rows[j]))

\* get_current_tickets_pageid: the database query
AfterQuery(r) ==
  CASE ResultIn(r) = "raise" -> Raise(<<>>)
    [] ResultIn(r) = "no" -> Return("normal", <<Say("Could not find a page titled 'Current Tickets'")>>)
    [] OTHER ->
         IF ~CanGetItems(r) THEN Raise(<<>>)
         ELSE LET s == ScanContent("get_current_tickets_pageid", "pageid", r.payload.items, "-", <<>>)
              IN IF s.k = "raise" THEN Raise(s.out)
                 ELSE Return("normal",
                        s.out \o (IF Found(r.payload.items) THEN <<>>
                                  ELSE <<Say("Could not find a page titled 'Current Tickets'")>>))

HasNonDict(items) == \E i \in 1..Len(items) : items[i].ikind = "nondict"

\* AfterToolsListCaps of a script that returns when tools/list yields no
\* result
AfterToolsListCaps_ReturnsOnNoResult(r) ==
  CASE ResultIn(r) = "raise" -> Raise(<<>>)
    [] ResultIn(r) = "no" -> Return("normal", <<>>)
    [] OTHER ->
         IF ~CanGetItems(r) THEN Raise(<<>>)
         ELSE LET out == <<Msg("Available Tools", Len(r.payload.items), FALSE)>>
              IN IF HasNonDict(r.payload.items) THEN Raise(out)
                 ELSE Goto("resources/list", <<>>, 0, out)

\* list_mcp_capabilities: tools/list; an error response prints nothing
AfterToolsListCaps(r) ==
  CASE ResultIn(r) = "raise" -> Raise(<<>>)
    [] ResultIn(r) = "no" -> Goto("resources/list", <<>>, 0, <<>>)
    [] OTHER ->
         IF ~CanGetItems(r) THEN Raise(<<>>)
         ELSE LET out == <<Msg("Available Tools", Len(r.payload.items), FALSE)>>
              IN IF HasNonDict(r.payload.items) THEN Raise(out)
                 ELSE Goto("resources/list", <<>>, 0, out)

\* list_mcp_capabilities: resources/list and prompts/list
\*   if response and "result" in response: ...
\*   elif response and "error" in response: print(... response['error'].get(...))
ListOutcome(r, what) ==
  CASE ResultIn(r) = "raise" -> [raised |-> TRUE, out |-> <<>>]
    [] ResultIn(r) = "yes" ->
         IF ~CanGetItems(r) THEN [raised |-> TRUE, out |-> <<>>]
         ELSE IF r.payload.items = <<>>
         THEN [raised |-> FALSE, out |-> <<Say("No " \o what \o " available")>>]
         ELSE [raised |-> HasNonDict(r.payload.items),
               out |-> <<Msg("Available " \o what, Len(r.payload.items), FALSE)>>]
    [] OTHER ->
         IF ErrorIn(r)
         THEN IF r.error = "nonobject" THEN [raised |-> TRUE, out |-> <<>>]
              ELSE [raised |-> FALSE, out |-> <<Say(what \o " not supported")>>]
         ELSE [raised |-> FALSE, out |-> <<>>]

AfterResourcesList(r) ==
  LET o == ListOutcome(r, "resources")
  IN IF o.raised THEN Raise(o.out) ELSE Goto("prompts/list", <<>>, 0, o.out)

AfterPromptsList(r) ==
  LET o == ListOutcome(r, "prompts")
  IN IF o.raised THEN Raise(o.out) ELSE Return("normal", o.out \o <<Say("Summary")>>)

\* "database" in name.lower() or "query" in name.lower()
\* `sub in s`
Contains(s, sub) ==
  \E i \in 1..(Len(s) - Len(sub) + 1) : SubSeq(s, i, i + Len(sub) - 1) = sub

IsQueryTool(tool) ==
  Contains(lower(tool.ikind), "database") \/ Contains(lower(tool.ikind), "query")

\* FirstQueryTool taking the last matching tool
FirstQueryTool_Last(tools) ==
  IF \E i \in 1..Len(tools) : IsQueryTool(tools[i])
  THEN CHOOSE i \in 1..Len(tools) :
         /\ IsQueryTool(tools[i])
         /\ \A j \in (i + 1)..Len(tools) : ~IsQueryTool(tools[j])
  ELSE 0

\* query_tools[0]: the position of the first matching tool, 0 when none
FirstQueryTool(tools) ==
  IF \E i \in 1..Len(tools) : IsQueryTool(tools[i])
  THEN CHOOSE i \in 1..Len(tools) :
         /\ IsQueryTool(tools[i])
         /\ \A j \in 1..(i - 1) : ~IsQueryTool(tools[j])
  ELSE 0

\* query_refined: tools/list, then one tools/call of the first matching tool
AfterToolsListRefined(r) ==
  CASE ResultIn(r) = "raise" -> Raise(<<>>)
    [] ResultIn(r) = "no" -> Return("normal", <<>>)
    [] OTHER ->
         IF ~CanGetItems(r) THEN Raise(<<>>)
         ELSE LET tools == r.payload.items
                  out == <<Msg("Found available tools", Len(tools), FALSE)>>
              IN IF HasNonDict(tools) THEN Raise(out)
                 ELSE IF FirstQueryTool(tools) # 0
                 THEN Goto("tool_call", tools, FirstQueryTool(tools),
                           out \o <<Say("Database query tools found")>>)
                 ELSE Return("normal", out \o <<Say("No database query tools found")>>)

AfterToolCall(r) ==
  CASE ResultIn(r) = "raise" -> Raise(<<>>)
    [] ResultIn(r) = "yes" ->
         IF r.kind = "has_result" THEN Raise(<<Say("Query results")>>)
         ELSE Return("normal", <<Say("Query results")>>)
    [] OTHER -> Return("normal", <<Say("No results from database query")>>)

\* keywords = ["refined", "ticket", ...]; any(keyword in db_title.lower() ...)
HasKeyword(db) == db \in {"refined", "ticket"}

\* list_workspace / list_databases: the loops over the search content items
\* and over the databases of each item.  `items` is what is left to iterate:
\* the rows of its first item are the databases not yet visited, the first
\* of which has index `di` (enumerate(databases, 1)).  The loops run up to
\* the next database that is queried (k = "query"), their end (k = "end")
\* or an exception that leaves them (k = "raise").
RECURSIVE ScanSearch(_, _, _, _)
ScanSearch(script, items, di, out) ==
  IF items = <<>> THEN [k |-> "end", items |-> items, di |-> di, out |-> out]
  ELSE LET it == Head(items)
           rest == Tail(items)
       IN CASE it.ikind \in {"nondict", "text_missing"} ->
                 [k |-> "raise", items |-> items, di |-> di, out |-> out]
            [] it.ikind \in {"nontext", "text_noresults"} ->
                 ScanSearch(script, rest, 1, out)
            [] it.ikind = "text_badjson" ->
                 ScanSearch(script, rest, 1,
                            out \o <<Say("Could not parse search response")>>)
            [] it.ikind = "text_results" ->
                 IF it.rows = <<>>
                 THEN ScanSearch(script, rest, 1,
                        IF di = 1 THEN out \o <<Say("No databases found")>> ELSE out)
                 ELSE LET head == IF di = 1
                                  THEN <<Msg("Found database(s)", Len(it.rows), FALSE)>>
                                  ELSE <<>>
                          line == out \o head \o <<Msg("Database", di, FALSE)>>
                      IN IF script = "list_workspace" \/ HasKeyword(Head(it.rows))
                         THEN [k |-> "query", items |-> items, di |-> di, out |-> line]
                         ELSE ScanSearch(script,
                                <<[it EXCEPT !.rows = Tail(it.rows)]>> \o rest,
                                di + 1, line)

\* carry on with the search loops and then with what follows them: the
\* page search (list_workspace) or the end of the try block
Continue(script, items, di, out) ==
  LET s == ScanSearch(script, items, di, out)
  IN CASE s.k = "raise" -> Raise(s.out)
       [] s.k = "query" -> Goto("db_query", s.items, s.di, s.out)
       [] OTHER -> IF script = "list_workspace"
                   THEN Goto("page_search", <<>>, 0, s.out)
                   ELSE Return("normal", s.out)

\* list_workspace / list_databases: the database search
AfterSearch(script, r) ==
  CASE ResultIn(r) = "raise" -> Raise(<<>>)
    [] ResultIn(r) = "no" ->
         LET out == <<Say("Search failed")>> \o
                    (IF ErrorIn(r) THEN <<Say("Error: " \o r.error)>> ELSE <<>>)
         IN IF script = "list_workspace" THEN Goto("page_search", <<>>, 0, out)
            ELSE Return("normal", out)
    [] OTHER ->
         IF ~CanGetItems(r) THEN Raise(<<>>)
         ELSE Continue(script, r.payload.items, 1, <<>>)

\* the iteration state once the database at the head has been dealt with
NextDb(items) ==
  <<[Head(items) EXCEPT !.rows = Tail(Head(items).rows)]>> \o Tail(items)

\* list_workspace / list_databases: the query of the database at the head
\* of `items`
AfterDbQuery(script, r, items, di) ==
  CASE ResultIn(r) = "raise" -> Raise(<<>>)
    [] ResultIn(r) = "no" ->
         Continue(script, NextDb(items), di + 1,
                  IF script = "list_workspace" THEN <<Say("Failed to query database")>>
                  ELSE <<>>)
    [] OTHER ->
         IF ~CanGetItems(r) THEN Raise(<<>>)
         ELSE LET s == ScanContent(script, "entries", r.payload.items,
                                   Head(Head(items).rows), <<>>)
              IN CASE s.k = "raise" -> Raise(s.out)
                   [] s.k = "return" -> Return("refined", s.out)
                   [] OTHER -> Continue(script, NextDb(items), di + 1, s.out)

\* list_workspace: the page search; a response without result prints nothing
AfterPageSearch(r) ==
  CASE ResultIn(r) = "raise" -> Raise(<<>>)
    [] ResultIn(r) = "no" -> Return("normal", <<>>)
    [] OTHER ->
         IF ~CanGetItems(r) THEN Raise(<<>>)
         ELSE LET s == ScanContent("list_workspace", "pages", r.payload.items, "-", <<>>)
              IN IF s.k = "raise" THEN Raise(s.out) ELSE Return("normal", s.out)

\* the code that follows `response = read_mcp_response(process)` for `call`
Handle(script, call, r, hasDescription, cs, di) ==
  CASE call = "initialize" -> AfterInitialize(script, r)
    [] call = "title" -> AfterTitle(r, hasDescription)
    [] call = "description" -> AfterDescription(r)
    [] call = "query" -> AfterQuery(r)
    [] call = "tools/list" ->
         IF script = "list_mcp_capabilities" THEN AfterToolsListCaps(r)
         ELSE AfterToolsListRefined(r)
    [] call = "resources/list" -> AfterResourcesList(r)
    [] call = "prompts/list" -> AfterPromptsList(r)
    [] call = "tool_call" -> AfterToolCall(r)
    [] call = "search" -> AfterSearch(script, r)
    [] call = "db_query" -> AfterDbQuery(script, r, cs, di)
    [] call = "page_search" -> AfterPageSearch(r)

(* ------------------------------ state ---------------------------------- *)

VARIABLES
  script,        \* the script that is run
  token,         \* os.environ.get("NOTION_TOKEN")
  env,           \* env["OPENAPI_MCP_HEADERS"] ("<unset>" until it is assigned)
  hasDescription,\* bool(args.description) (update_page_title_description)
  pc,            \* start, spawn, send, recv, except, finally, wait, done, fatal
  call,          \* the request about to be sent / whose response is awaited
  process,       \* "unbound" or "bound": 'process' in locals()
  child,         \* none, alive, hung, blocked, exited, reaped
  stderrFull,    \* the pipe attached to the child's stderr holds all it can
  signalled,     \* SIGTERM was sent to the child
  sent,          \* the requests written to the child's stdin, in order
  reads,         \* number of readline() calls that returned or raised
  response,      \* the last value returned by read_mcp_response
  lastLine,      \* kind of the last line read ("none" before the first read)
  handled,       \* the call whose response was read last
  contents,      \* list_*: the search content items left; query_refined: the tools
  di,            \* index i of the database (or of the tool) in the request
  output,        \* what was printed since the last request was written
  exc,           \* where the exception in flight was raised ("none" if none)
  exitPath,      \* how the try block was left
  termCalls,     \* calls of process.terminate()
  waitCalls      \* calls of process.wait() that returned

vars ==
  <<script, token, env, hasDescription, pc, call, process, child, stderrFull, signalled, sent,
    reads, response, lastLine, handled, contents, di, output, exc, exitPath,
    termCalls, waitCalls>>

inputs == <<script, token, hasDescription>>
loopVars == <<contents, di>>
procVars == <<process, child, signalled, termCalls, waitCalls>>
readVars == <<reads, response, lastLine, handled>>

Start(tokens) ==
  /\ script \in Scripts
  /\ token \in tokens
  /\ env = "<unset>"
  /\ hasDescription \in (IF script = "update_page_title_description" THEN BOOLEAN ELSE {FALSE})
  /\ pc = "start"
  /\ call = "-"
  /\ process = "unbound"
  /\ child = "none"
  /\ stderrFull = FALSE
  /\ signalled = FALSE
  /\ sent = <<>>
  /\ reads = 0
  /\ response = None
  /\ lastLine = "none"
  /\ handled = "-"
  /\ contents = <<>>
  /\ di = 0
  /\ output = <<>>
  /\ exc = "none"
  /\ exitPath = "running"
  /\ termCalls = 0
  /\ waitCalls = 0

Init == Start(Tokens)

\* the start of a run with any of the token values of EnvTokens
EnvInit == Start(EnvTokens)

(* ----------------------------- operations ------------------------------- *)

\* TokenMissing testing `notion_token is None` instead of its truth value
TokenMissing_NoneOnly(t) == t = "<unset>"

\* if not notion_token: raise Exception(...), before the try block
TokenMissing(t) == t \in {"<unset>", ""}

CheckToken ==
  /\ pc = "start"
  /\ IF TokenMissing(token)
     THEN /\ pc' = "fatal"
          /\ exc' = "credential"
          /\ exitPath' = "uncaught"
          /\ UNCHANGED env
     ELSE /\ pc' = "spawn"
          /\ env' = Headers(token)
          /\ UNCHANGED <<exc, exitPath>>
  /\ UNCHANGED <<inputs, stderrFull, call, procVars, sent, readVars, loopVars, output>>

\* process = subprocess.Popen([...]): the child runs, or Popen raises and
\* `process` is never bound
Spawn ==
  /\ pc = "spawn"
  /\ \/ /\ process' = "bound"
        /\ child' = "alive"
        /\ pc' = "send"
        /\ call' = "initialize"
        /\ UNCHANGED <<exc, exitPath>>
     \/ /\ exc' = "spawn"
        /\ exitPath' = "exception"
        /\ pc' = "except"
        /\ UNCHANGED <<process, child, call>>
  /\ UNCHANGED <<inputs, env, stderrFull, signalled, termCalls, waitCalls, sent, readVars, loopVars, output>>

\* AfterSend with the read of the per-database query response left out
AfterSend_NoRead(c) == IF c = "db_query" THEN "send" ELSE "recv"

\* where control goes once send_mcp_message has returned: every send is
\* followed by `response = read_mcp_response(process)`
AfterSend(c) == "recv"

\* AfterWriteError of a send_mcp_message that swallows the error of the
\* write, so that the caller goes on to read
AfterWriteError_Swallowed == "recv"

\* where control goes when write or flush raises: send_mcp_message has no
\* handler and no call of it is inside an inner try, so the exception
\* reaches the `except Exception` clause of the script
AfterWriteError == "except"

\* send_mcp_message: write the line and flush; the write raises when the
\* child has exited or has closed its stdin
send_mcp_message ==
  /\ pc = "send"
  /\ \/ /\ child = "alive"
        /\ sent' = Append(sent, Request(script, call, contents, di))
        /\ pc' = AfterSend(call)
        /\ output' = <<>>
        /\ UNCHANGED <<exc, exitPath>>
     \/ /\ exc' = "send"
        /\ exitPath' = "exception"
        /\ pc' = AfterWriteError
        /\ UNCHANGED <<sent, output>>
  /\ UNCHANGED <<inputs, env, stderrFull, call, procVars, readVars, loopVars>>

\* response = read_mcp_response(process) and the code up to the next send,
\* the return or the exception.  readline() returns once the child has
\* written a line or closed its stdout; it has no timeout.
Receive ==
  /\ pc = "recv"
  /\ child \notin {"hung", "blocked"}
  /\ \E line \in LinesFor(script, call, RequestId(script, call, di)) :
       LET rd == read_mcp_response(line)
           h == IF rd.raised THEN Raise(<<>>)
                ELSE Handle(script, call, rd.value, hasDescription, contents, di)
       IN /\ reads' = reads + 1
          /\ lastLine' = line.kind
          /\ handled' = call
          /\ response' = IF rd.raised THEN response ELSE Summary(rd.value)
          /\ output' = rd.out \o h.out
          /\ exc' = IF rd.raised THEN "receive"
                    ELSE IF h.next = "raise" THEN "handling" ELSE "none"
          /\ exitPath' = h.exit
          /\ pc' = CASE h.next = "send" -> "send"
                     [] h.next = "return" -> "finally"
                     [] h.next = "raise" -> "except"
          /\ call' = h.call
          /\ contents' = h.contents
          /\ di' = h.di
  /\ UNCHANGED <<inputs, env, stderrFull, procVars, sent>>

\* except Exception as e: print(f"Error: {e}")
HandleException ==
  /\ pc = "except"
  /\ output' = Append(output, Say("Error"))
  /\ pc' = "finally"
  /\ UNCHANGED <<inputs, env, stderrFull, call, procVars, sent, readVars, loopVars, exc, exitPath>>

\* ProcessInLocals testing a name that is never bound
ProcessInLocals_Never(p) == FALSE

\* ProcessInLocals without the test: terminate whatever happened
ProcessInLocals_Always(p) == TRUE

\* 'process' in locals()
ProcessInLocals(p) == p = "bound"

\* Finally calling process.wait() without process.terminate()
Finally_WaitOnly ==
  /\ pc = "finally"
  /\ pc' = IF ProcessInLocals(process) THEN "wait" ELSE "done"
  /\ UNCHANGED <<inputs, env, stderrFull, call, procVars, sent, readVars, loopVars,
                 output, exc, exitPath>>

\* finally: if 'process' in locals(): process.terminate()
Finally ==
  /\ pc = "finally"
  /\ IF ProcessInLocals(process)
     THEN /\ termCalls' = termCalls + 1
          /\ signalled' = (child = "alive")
          /\ pc' = "wait"
     ELSE /\ pc' = "done"
          /\ UNCHANGED <<termCalls, signalled>>
  /\ UNCHANGED <<inputs, env, stderrFull, call, process, child, waitCalls, sent, readVars, loopVars,
                 output, exc, exitPath>>

\* process.wait(): returns once the child has exited
Wait ==
  /\ pc = "wait"
  /\ child = "exited"
  /\ child' = "reaped"
  /\ waitCalls' = waitCalls + 1
  /\ pc' = "done"
  /\ UNCHANGED <<inputs, env, stderrFull, call, process, signalled, termCalls, sent, readVars, loopVars,
                 output, exc, exitPath>>

\* the child exits: on the signal, or on its own.  An exit of its own is
\* seen by the script as a failing write (send_mcp_message) or when the
\* finally block is reached, so it is taken to happen there.
ChildExit ==
  /\ child = "alive"
  /\ pc \in {"finally", "wait"}
  /\ child' = "exited"
  /\ UNCHANGED <<inputs, env, stderrFull, pc, call, process, signalled, termCalls, waitCalls, sent,
                 readVars, loopVars, output, exc, exitPath>>

\* the child stops for good while the script waits for its line: it
\* neither writes a line nor closes its stdout
ChildHangs ==
  /\ pc = "recv"
  /\ child = "alive"
  /\ child' = "hung"
  /\ UNCHANGED <<inputs, env, stderrFull, pc, call, process, signalled, termCalls, waitCalls, sent,
                 readVars, loopVars, output, exc, exitPath>>

Next ==
  \/ CheckToken
  \/ Spawn
  \/ send_mcp_message
  \/ Receive
  \/ HandleException
  \/ Finally
  \/ Wait
  \/ ChildExit
  \/ ChildHangs

Spec == Init /\ [][Next]_vars

\* the statements of the script that do not wait for a line of the child:
\* a single thread that runs each of them as soon as it can
OwnStep ==
  \/ CheckToken
  \/ Spawn
  \/ send_mcp_message
  \/ HandleException
  \/ Finally
  \/ Wait

\* readline() is called and the child has not stopped for good: it writes
\* a line or closes its stdout, and Receive can be taken
ReadPending == pc = "recv" /\ child \notin {"hung", "blocked"}

\* the runs in which the script keeps running, the child answers every
\* read it does not hang on, and the child exits once it was signalled.
\* []<>~ReadPending is weak fairness of Receive: Receive is enabled exactly
\* in the states ReadPending and every Receive step leaves them.
FairSpec ==
  /\ Init
  /\ [][Next]_vars
  /\ WF_vars(OwnStep)
  /\ []<>~ReadPending
  /\ WF_vars(signalled /\ ChildExit)

\* stderr=subprocess.PIPE and no read of process.stderr anywhere: what the
\* child writes to its stderr stays in the pipe.  The child writes to its
\* stderr until the pipe holds all it can.
ChildFillsStderr ==
  /\ pc = "recv"
  /\ child = "alive"
  /\ ~stderrFull
  /\ stderrFull' = TRUE
  /\ UNCHANGED <<inputs, env, pc, call, procVars, sent, readVars, loopVars,
                 output, exc, exitPath>>

\* the child writes to its stderr once more before it has written its
\* response line: the write blocks until the pipe is read, which the
\* script never does
ChildBlocksOnStderr ==
  /\ pc = "recv"
  /\ child = "alive"
  /\ stderrFull
  /\ child' = "blocked"
  /\ UNCHANGED <<inputs, env, stderrFull, pc, call, process, signalled, termCalls,
                 waitCalls, sent, readVars, loopVars, output, exc, exitPath>>

\* the runs in which the bytes the child writes to its stderr are
\* followed: Spec leaves them out (a child that stops for any reason at
\* all is ChildHangs)
PipeNext ==
  \/ CheckToken
  \/ Spawn
  \/ send_mcp_message
  \/ Receive
  \/ HandleException
  \/ Finally
  \/ Wait
  \/ ChildExit
  \/ ChildHangs
  \/ ChildFillsStderr
  \/ ChildBlocksOnStderr

PipeSpec == Init /\ [][PipeNext]_vars

\* the runs up to the spawn, for every token of EnvTokens: the token test,
\* the construction of OPENAPI_MCP_HEADERS and Popen(..., env=env)
EnvNext ==
  \/ CheckToken
  \/ Spawn

EnvSpec == EnvInit /\ [][EnvNext]_vars

(* ------------------------------ claims --------------------------------- *)

\* the line read was end-of-stream or was not decodable
NoLine == lastLine \in {"eof", "badbytes", "blank", "garbage"}

\* the value returned by the last read is a JSON object without "result"
\* (the empty object is the falsy object)
ObjectWithoutResult ==
  \/ response.kind = "dict" /\ response.payload.ptype = "absent"
  \/ response.kind = "falsy"

\* the last read has returned and no request was written since
JustRead == reads > 0 /\ reads = Len(sent)

\* C1: if the response to initialize is absent (end-of-stream or undecodable
\* line) or is an object without result, no request other than initialize
\* is ever written to the child.
C1_HandshakeGates ==
  (handled = "initialize" /\ (NoLine \/ ObjectWithoutResult)) => Len(sent) = 1

C1_Witness ==
  /\ pc = "done"
  /\ handled = "initialize"
  /\ response.kind = "dict"
  /\ response.payload.ptype = "absent"
  /\ exitPath = "handshake"
  /\ Len(sent) = 1

\* C2: at most one request is unanswered, and between two consecutive
\* writes of a request exactly one line is read: the number of requests
\* written is the number of reads or one more, a request is written only
\* when every earlier one has been read for, and a read happens only when
\* one request is outstanding.
C2_HalfDuplex ==
  /\ Len(sent) - reads \in {0, 1}
  /\ pc = "send" => Len(sent) = reads
  /\ pc = "recv" => Len(sent) = reads + 1

C2_Witness == Len(sent) = 4 /\ reads = 4 /\ handled = "db_query"

\* C3: when the script ends after a child was spawned, whatever the exit
\* path (normal end, failed handshake, refined database found, exception),
\* terminate and wait were called and no live child remains.
C3_GuaranteedCleanup ==
  (pc = "done" /\ child # "none") =>
     /\ child = "reaped"
     /\ termCalls >= 1
     /\ waitCalls >= 1
     /\ exitPath \in {"normal", "handshake", "refined", "exception"}

C3_Witness ==
  /\ pc = "done"
  /\ exitPath = "exception"
  /\ exc = "handling"
  /\ handled = "db_query"
  /\ child = "reaped"

\* C4: terminate then wait runs exactly once per spawned child on every
\* exit path, never twice, and not at all when no child was spawned.
C4_ShutdownExactlyOnce ==
  /\ termCalls <= 1
  /\ waitCalls <= termCalls
  /\ process = "unbound" => termCalls = 0
  /\ pc = "fatal" => termCalls = 0
  /\ (pc = "done" /\ process = "bound") => (termCalls = 1 /\ waitCalls = 1)

C4_Witness ==
  /\ pc = "done"
  /\ exitPath = "refined"
  /\ termCalls = 1
  /\ waitCalls = 1

\* C5: the decoded response handed to the caller contains exactly one of
\* result / error and its id equals the id of the request just sent, for
\* every line the child may emit.
C5_Correlation ==
  (JustRead /\ lastLine = "dict") =>
     /\ (response.payload.ptype # "absent") # (response.error # "absent")
     /\ response.hasId
     /\ response.id = sent[Len(sent)].id

\* C6: once a receive after the handshake yields no response (end-of-stream
\* or a malformed line), no further request is written to the child.
C6_TransportFailureAborts ==
  (handled \notin {"-", "initialize"} /\ lastLine \in {"eof", "blank", "garbage"})
     => Len(sent) = reads

\* the messages by which a script reports that a call failed
FailureTags ==
  {"Failed to update title.", "Failed to update description.", "Search failed",
   "Failed to query database", "resources not supported", "prompts not supported",
   "No results from database query", "Could not find a page titled 'Current Tickets'"}

FailureReported == \E i \in 1..Len(output) : output[i].tag \in FailureTags

\* the script went on to write request `c` (the write itself may fail)
Attempted(c) == call = c /\ (pc = "send" \/ exc = "send")

\* C7: when a well-formed response to a tool call or list call carries an
\* error object, the failure is reported for that call and the remaining
\* independent calls of the script are still sent.
C7_ApplicationErrorLocal ==
  (/\ JustRead
   /\ handled # "initialize"
   /\ lastLine = "dict"
   /\ response.payload.ptype = "absent"
   /\ response.error = "object") =>
     /\ FailureReported
     /\ (handled = "title" /\ hasDescription) => Attempted("description")
     /\ (script = "list_workspace" /\ handled = "search") => Attempted("page_search")
     /\ (script = "list_workspace" /\ handled = "db_query") =>
           (Attempted("db_query") \/ Attempted("page_search") \/ exc = "handling")
     /\ handled = "tools/list" /\ script = "list_mcp_capabilities" =>
           Attempted("resources/list")
     /\ handled = "resources/list" => Attempted("prompts/list")

\* a well-formed response to the request with id `rid` carrying an error
ErrorResponse(rid) == Line("dict", TRUE, rid, NoPayload, "object")

\* C8: for each call of each script, what is reported for a missing or
\* undecodable response differs from what is reported for a well-formed
\* response carrying an error.
C8_DistinctReports ==
  [][(pc = "recv" /\ reads' = reads + 1 /\ lastLine' \in {"eof", "blank", "garbage"}) =>
       output' # Handle(script, call, ErrorResponse(RequestId(script, call, di)),
                        hasDescription, contents, di).out]_vars

\* C9: when the child closes its stdout before writing a line,
\* the read returns (it does not block), read_mcp_response returns None
\* and no exception leaves it.
C9_EndOfStream ==
  lastLine = "eof" => (response = None /\ exc # "receive" /\ reads >= 1)

C9_Witness ==
  /\ lastLine = "eof"
  /\ response = None
  /\ reads = 2
  /\ pc = "send"

C11_CredentialBeforeSpawn ==
  token \in {"<unset>", ""} =>
     /\ pc \in {"start", "fatal"}
     /\ pc = "fatal" => (exc = "credential" /\ exitPath = "uncaught")
     /\ process = "unbound"
     /\ child = "none"
     /\ sent = <<>>
     /\ reads = 0
     /\ termCalls = 0
     /\ waitCalls = 0

C11_Witness == pc = "fatal" /\ token = "" /\ exc = "credential"

\* a request is written to the child in this step
Writes == Len(sent') = Len(sent) + 1

\* what every step of a run respects (C12)
LifecycleStep ==
  /\ sent' # sent => (Writes /\ sent' = Append(sent, sent'[Len(sent')]))
  /\ Writes =>
       /\ termCalls = 0
       /\ child = "alive"
       /\ IF sent = <<>>
          THEN /\ sent'[1].method = "initialize"
               /\ reads = 0
          ELSE /\ sent'[Len(sent')].method # "initialize"
               /\ reads = Len(sent)
               /\ Len(sent) = 1 =>
                    (handled = "initialize" /\ ResultIn(response) = "yes" /\ exc = "none")
  /\ reads' # reads => (termCalls = 0 /\ termCalls' = 0)
  /\ (child' = "alive" /\ child # "alive") =>
       (child = "none" /\ process = "unbound" /\ sent = <<>>)
  /\ process = "bound" => process' = "bound"
  /\ termCalls >= 1 => (sent' = sent /\ reads' = reads)

\* C12: the first request written is initialize; any other request is
\* written only after the initialize response was read and passed the
\* script's test (`response` is truthy and contains "result"); a child
\* comes alive at most once per run; nothing is written or read once
\* terminate was called.
C12_LifecycleOrdering == [][LifecycleStep]_vars

C12_Witness ==
  /\ pc = "done"
  /\ Len(sent) >= 3
  /\ sent[1].method = "initialize"
  /\ sent[2].method # "initialize"
  /\ termCalls = 1
  /\ child = "reaped"

\* C13: when Popen raises, no request is written, no line is read,
\* neither terminate nor wait is called (the name `process` was never
\* bound), and the script goes through its except and finally clauses to
\* its end having made none of its calls.
C13_SpawnFailureFatal ==
  exc = "spawn" =>
     /\ pc \in {"except", "finally", "done"}
     /\ process = "unbound"
     /\ child = "none"
     /\ sent = <<>>
     /\ reads = 0
     /\ call = "-"
     /\ termCalls = 0
     /\ waitCalls = 0
     /\ exitPath = "exception"
     /\ pc \in {"finally", "done"} => output = <<Say("Error")>>

C13_Witness == pc = "done" /\ exc = "spawn" /\ output = <<Say("Error")>>

\* the state of a run in which a write of a request has failed (C14)
AfterFailedWrite ==
  /\ pc \in {"except", "finally", "wait", "done"}
  /\ exitPath = "exception"
  /\ process = "bound"
  /\ Len(sent) = reads
  /\ pc \in {"finally", "wait", "done"} => output[Len(output)] = Say("Error")
  /\ pc \in {"wait", "done"} => termCalls = 1
  /\ pc = "done" => (waitCalls = 1 /\ child = "reaped")

\* C14: when the write or flush of a request raises, the exception leaves
\* send_mcp_message, the request is not followed by a read, no request is
\* written afterwards, and the child is terminated and waited on.
C14_WriteFailure ==
  [][/\ (exc # "send" /\ exc' = "send") => (pc = "send" /\ sent' = sent /\ reads' = reads)
     /\ exc = "send" => (exc' = "send" /\ sent' = sent /\ reads' = reads)
     /\ exc' = "send" => AfterFailedWrite']_vars

C14_Witness ==
  /\ pc = "done"
  /\ exc = "send"
  /\ call = "page_search"
  /\ Len(sent) = 2
  /\ reads = 2
  /\ termCalls = 1
  /\ waitCalls = 1
  /\ child = "reaped"

\* the response to the query of a database whose one text item decodes to
\* `rows` and to the given has_more member
QueryResponse(rid, rows, more) ==
  Line("dict", TRUE, rid, Payload("dict", <<Item("text_results", rows, more)>>), "absent")

\* what the handler of the per-database query prints for that response
QueryReport(rows, more) ==
  Handle(script, call, QueryResponse(RequestId(script, call, di), rows, more),
         hasDescription, contents, di).out

\* C15: wherever list_databases or list_workspace awaits the response to a
\* database query, two payloads with the same results, one with has_more
\* true and the other with has_more false or absent, are reported with
\* different texts (the count followed by "+" against the plain count),
\* for every number of results.
C15_HasMoreSurfaced ==
  (pc = "recv" /\ call = "db_query") =>
     \A rows \in SeqsUpTo(RowKinds(script, call), MaxRows) :
        /\ QueryReport(rows, "true") # QueryReport(rows, "false")
        /\ QueryReport(rows, "true") # QueryReport(rows, "absent")
        /\ QueryReport(rows, "true")[1].tag =
             EntriesLine(script, Len(rows), TRUE)
        /\ QueryReport(rows, "false")[1].tag =
             EntriesLine(script, Len(rows), FALSE)
        /\ \A n \in 0..Len(rows) :
             EntriesLine(script, n, TRUE) # EntriesLine(script, Len(rows), FALSE)

C15_Witness ==
  /\ handled = "db_query"
  /\ JustRead
  /\ script = "list_databases"
  /\ output # <<>>
  /\ output[1] = Say("Contains 2+ entries")

\* the script reports that no page titled 'Current Tickets' exists
ReportsNoSuchPage(out) ==
  \E i \in 1..Len(out) : out[i] = Say("Could not find a page titled 'Current Tickets'")

\* C16: a payload with has_more true is not taken to be complete: when
\* the page of results that get_current_tickets_pageid examined holds no
\* 'Current Tickets' title and carries has_more true, the script does not
\* report that the database has no such page.
C16_NoCompletenessAssumed ==
  (pc = "recv" /\ call = "query") =>
     \A rows \in SeqsUpTo({p \in Pages : ~IsCurrentTickets(PageTitle(p))}, MaxRows) :
        ~ReportsNoSuchPage(QueryReport(rows, "true"))

\* the title the claim gives a result: the plain_text fields, in order, of
\* the first property of type title with a non-empty title list;
\* 'Untitled' when there is none
ClaimedTitle(page) ==
  LET ps == page.properties
      idx == {i \in 1..Len(ps) : ps[i].type = "title" /\ Len(ps[i].title) > 0}
  IN IF ~page.hasProperties \/ idx = {} THEN "Untitled"
     ELSE Join(ps[CHOOSE i \in idx : \A j \in idx : i <= j].title)

RECURSIVE ClaimedLines(_)
\* one line per result with its title, followed by the match line exactly
\* when the stripped, lower-cased title is 'current tickets'
ClaimedLines(rows) ==
  IF rows = <<>> THEN <<>>
  ELSE <<Say("Page: '" \o ClaimedTitle(Head(rows)) \o "'")>>
       \o (IF lower(strip(ClaimedTitle(Head(rows)))) = "current tickets"
           THEN <<Say("Page ID for 'Current Tickets'")>> ELSE <<>>)
       \o ClaimedLines(Tail(rows))

IsPageLine(m) == m # Say("Could not find a page titled 'Current Tickets'")

Char(s, i) == IF i \in 1..Len(s) THEN SubSeq(s, i, i) ELSE ""

JsonFail == [ok |-> FALSE, value |-> "", members |-> <<>>, next |-> 0]

RECURSIVE JsonString(_, _, _)
\* decoding of a JSON string literal of `s` whose opening quote precedes
\* position i: the decoded text and the position after the closing quote
JsonString(s, i, acc) ==
  LET c == Char(s, i)
      e == Char(s, i + 1)
  IN CASE c = "" -> JsonFail
       [] c = "\"" -> [ok |-> TRUE, value |-> acc, members |-> <<>>, next |-> i + 1]
       [] c = "\\" ->
            CASE e \in {"\"", "\\", "/"} -> JsonString(s, i + 2, acc \o e)
              [] e = "n" -> JsonString(s, i + 2, acc \o "\n")
              [] e = "t" -> JsonString(s, i + 2, acc \o "\t")
              [] e = "r" -> JsonString(s, i + 2, acc \o "\r")
              [] OTHER -> JsonFail
       [] OTHER -> JsonString(s, i + 1, acc \o c)

RECURSIVE JsonMembers(_, _, _)
\* decoding of the members "key":"value" of a JSON object from position i
\* up to the closing brace, which must end the text
JsonMembers(s, i, acc) ==
  IF Char(s, i) # "\"" THEN JsonFail
  ELSE LET k == JsonString(s, i + 1, "")
       IN IF ~k.ok \/ Char(s, k.next) # ":" \/ Char(s, k.next + 1) # "\"" THEN JsonFail
          ELSE LET v == JsonString(s, k.next + 2, "")
                   all == Append(acc, [key |-> k.value, value |-> v.value])
               IN IF ~v.ok THEN JsonFail
                  ELSE CASE Char(s, v.next) = "," -> JsonMembers(s, v.next + 1, all)
                         [] Char(s, v.next) = "}" /\ v.next = Len(s) ->
                              [ok |-> TRUE, value |-> "", members |-> all, next |-> v.next + 1]
                         [] OTHER -> JsonFail

\* decoding of a text as a JSON object all of whose members are strings
JsonObject(s) == IF Char(s, 1) = "{" THEN JsonMembers(s, 2, <<>>) ELSE JsonFail

\* the member `key` of a decoded object (the last one when it is repeated)
HasMember(d, key) == \E i \in 1..Len(d.members) : d.members[i].key = key
Member(d, key) ==
  d.members[CHOOSE i \in 1..Len(d.members) :
              /\ d.members[i].key = key
              /\ \A j \in (i + 1)..Len(d.members) : d.members[j].key # key].value

\* C18: for every non-empty token the OPENAPI_MCP_HEADERS value put in the
\* environment of the child is a JSON text that decodes to an object whose
\* Authorization member is 'Bearer ' followed by the token and whose
\* Notion-Version member is '2022-06-28'.
C18_HeadersRoundTrip ==
  env # "<unset>" =>
     LET d == JsonObject(env)
     IN /\ d.ok
        /\ HasMember(d, "Authorization")
        /\ Member(d, "Authorization") = "Bearer " \o token
        /\ HasMember(d, "Notion-Version")
        /\ Member(d, "Notion-Version") = "2022-06-28"

\* the name contains 'database' or 'query', whatever the case of its letters
ClaimedMatch(name) ==
  \E w \in {"database", "query"} :
     \E i \in 1..Len(name) :
        i + Len(w) - 1 <= Len(name) /\ lower(SubSeq(name, i, i + Len(w) - 1)) = w

\* the tools/list response listing `tools`
ToolsResponse(rid, tools) == Line("dict", TRUE, rid, Payload("dict", tools), "absent")

\* the tools of ToolItems that are objects
ToolObjects == {t \in ToolItems : t.ikind # "nondict"}

\* what query_refined does with the response to tools/list (C19)
DiscoveryAtToolsList ==
  /\ \A tools \in SeqsUpTo(ToolObjects, MaxContents) :
        LET h == Handle(script, call, ToolsResponse(RequestId(script, call, di), tools),
                        hasDescription, contents, di)
            matching == {i \in 1..Len(tools) : ClaimedMatch(tools[i].ikind)}
        IN IF matching = {} THEN h.next = "return"
           ELSE /\ h.next = "send"
                /\ h.call = "tool_call"
                /\ Request(script, h.call, h.contents, h.di) =
                     Req(3, "tools/call",
                         tools[CHOOSE i \in matching : \A j \in matching : i <= j].ikind)
  /\ \A line \in LinesFor(script, call, RequestId(script, call, di)) :
        LET rd == read_mcp_response(line)
        IN (~rd.raised /\ ResultIn(rd.value) # "yes") =>
              Handle(script, call, rd.value, hasDescription, contents, di).next # "send"

\* C19: query_refined writes a tools/call only when the tools/list response
\* has a result and lists a tool whose name contains 'database' or 'query'
\* (in any case); the tool named is the first such tool in the order of
\* the list; the call is written at most once; when no tool matches no
\* tools/call is written.
C19_ToolDiscovery ==
  script = "query_refined" =>
     /\ Len(sent) <= 3
     /\ \A i \in 1..Len(sent) : sent[i].method = "tools/call" => i = 3
     /\ (pc = "recv" /\ call = "tools/list") => DiscoveryAtToolsList
     /\ (call = "tool_call" /\ pc \in {"send", "recv"}) =>
          /\ handled = "tools/list"
          /\ ResultIn(response) = "yes"
          /\ \E i \in 1..Len(contents) : ClaimedMatch(contents[i].ikind)
          /\ \A j \in 1..(di - 1) : ~ClaimedMatch(contents[j].ikind)
          /\ ClaimedMatch(contents[di].ikind)
     /\ (call = "tool_call" /\ pc = "recv") =>
          sent[3] = Req(3, "tools/call", contents[di].ikind)

C19_Witness ==
  /\ script = "query_refined"
  /\ pc = "recv"
  /\ call = "tool_call"
  /\ Len(contents) = 2
  /\ contents[1].ikind = "API-retrieve-a-DataBase"
  /\ contents[2].ikind = "API-post-Query"
  /\ sent[3] = Req(3, "tools/call", "API-retrieve-a-DataBase")

\* C20: a run in which the child answers every request with a line or by
\* closing its stdout, and exits once signalled, ends, and it ends with the
\* child terminated and reaped when one was spawned; a child that neither
\* writes nor closes leaves the script in the read for ever: no step
\* follows, and terminate has not been and is never called.
C20_Termination ==
  /\ <>(pc \in {"done", "fatal"} \/ child = "hung")
  /\ []((pc = "done" /\ child # "none") => (child = "reaped" /\ termCalls = 1))
  /\ [](child = "hung" => (pc = "recv" /\ termCalls = 0 /\ ~signalled))
  /\ [][child # "hung"]_vars

C20_Witness ==
  /\ pc = "done"
  /\ child = "reaped"
  /\ termCalls = 1
  /\ waitCalls = 1
  /\ reads = 5
  /\ exitPath = "normal"

\* the blocked read of C20: the child hung on the page search
C20_Blocked == child = "hung" /\ pc = "recv" /\ call = "page_search" /\ termCalls = 0

\* the requests of list_mcp_capabilities: initialize, then the three lists
CapsRequests ==
  <<Req(1, "initialize", "-"), Req(2, "tools/list", "-"),
    Req(3, "resources/list", "-"), Req(4, "prompts/list", "-")>>

IsPrefix(s, t) == Len(s) <= Len(t) /\ s = SubSeq(t, 1, Len(s))

\* the response to initialize was read and passed the test of the script
HandshakePassed ==
  /\ handled # "-"
  /\ exitPath # "handshake"
  /\ ~(handled = "initialize" /\ exc \in {"receive", "handling"})

\* the list request that follows `c` in list_mcp_capabilities
CapsSuccessor(c) ==
  CASE c = "tools/list" -> "resources/list"
    [] c = "resources/list" -> "prompts/list"
    [] OTHER -> "-"

\* whatever line answers the list request awaited, the script raises or
\* goes on to the next list request (after prompts/list: to its end)
CapsOutcomeIndependent ==
  \A line \in LinesFor(script, call, RequestId(script, call, di)) :
    LET rd == read_mcp_response(line)
        h == Handle(script, call, rd.value, hasDescription, contents, di)
    IN rd.raised \/ h.next = "raise"
       \/ IF call = "prompts/list" THEN h.next = "return" /\ h.exit = "normal"
          ELSE h.next = "send" /\ h.call = CapsSuccessor(call)

\* C21: list_mcp_capabilities writes initialize, tools/list (id 2),
\* resources/list (id 3) and prompts/list (id 4) in that order and once
\* each, and nothing else; whatever line answers a list request the script
\* goes on to the next one unless an exception is raised; a run that ends
\* after a passed handshake has written all of them unless an exception was
\* raised while a response was handled, while a line was read, or by the
\* write of a request.
C21_RequestSequence ==
  script = "list_mcp_capabilities" =>
     /\ IsPrefix(sent, CapsRequests)
     /\ (pc = "recv" /\ call # "initialize") => CapsOutcomeIndependent
     /\ (pc = "send" /\ call # "initialize") =>
           (Len(sent) \in 1..3 /\ call = CapsRequests[Len(sent) + 1].method)
     /\ (pc = "done" /\ HandshakePassed /\ exc \notin {"receive", "handling", "send"})
           => sent = CapsRequests

\* C21 as worded: the only exceptions that stop the sequence are those
\* raised while a response is read or handled
C21_SequenceUnlessHandling ==
  (/\ script = "list_mcp_capabilities"
   /\ pc = "done"
   /\ HandshakePassed
   /\ exc \notin {"receive", "handling"}) => sent = CapsRequests

\* a run that wrote the four requests and came to its end although the
\* read for prompts/list met end-of-stream
C21_Witness ==
  /\ script = "list_mcp_capabilities"
  /\ pc = "done"
  /\ sent = CapsRequests
  /\ reads = 4
  /\ lastLine = "eof"
  /\ exitPath = "normal"

\* C22: no two requests written to the child during one run carry the
\* same id, for every number of databases and every number of text content
\* items in the search response.
C22_DistinctIds ==
  \A i, j \in 1..Len(sent) : i # j => sent[i].id # sent[j].id

\* C23: the script is never blocked in readline() on the child's stdout
\* while the child is blocked writing to a full pipe before it has written
\* its response line.  (A write of the child to stdout cannot stay blocked
\* during the read, which takes what is in that pipe; the pipe of stderr
\* is never read.)
C23_NoPipeDeadlock ==
  ~(pc = "recv" /\ Len(sent) = reads + 1 /\ child = "blocked" /\ stderrFull)

====
